---- MODULE Spec2Model ----
(***************************************************************************)
(* Model of the Bitcoin rainbow chart renderer (src/src/main.py and        *)
(* src/src/plot.py).                                                       *)
(*                                                                         *)
(* Representation.                                                         *)
(*  - A date is its proleptic Gregorian ordinal (an integer number of      *)
(*    days); timedelta(days=1) and the daily pd.date_range add to it,      *)
(*    pd.DateOffset(months=k) works on the (year, month, day) fields.      *)
(*  - Log-space quantities (fitted values, band offsets, BAND_WIDTH) are   *)
(*    exact fixed-point numbers in thousandths.                            *)
(*  - np.exp(v) is the record [exp |-> v], the real number e^(v/1000); exp *)
(*    is strictly increasing, so such values are ordered by their          *)
(*    exponents and ln reads the exponent back.  IEEE rounding of the      *)
(*    float64 operations is not represented.                               *)
(***************************************************************************)
EXTENDS Integers, Sequences, FiniteSets, TLC

VARIABLES csv, save, file_path, pc, raw_data, popt, fig, extended, outputs, stdout, calls

vars == <<csv, save, file_path, pc, raw_data, popt, fig, extended, outputs, stdout, calls>>

(***************************************************************************)
(* Bounds of the model.                                                    *)
(***************************************************************************)
FirstYear == 2023
LastYear == 2024
MaxLen == 3
MaxGap == 2

(***************************************************************************)
(* Constants of plot.py.                                                   *)
(***************************************************************************)
COLORS_LABELS ==
    << <<"#c00200", "Maximum bubble territory">>,
       <<"#d64018", "Sell. Seriously, SELL!">>,
       <<"#ed7d31", "FOMO Intensifies">>,
       <<"#f6b45a", "Is this a bubble?">>,
       <<"#feeb84", "HODL!">>,
       <<"#b1d580", "Still cheap">>,
       <<"#63be7b", "Accumulate">>,
       <<"#54989f", "BUY!">>,
       <<"#4472c4", "Fire sale!">> >>

\* BAND_WIDTH = 0.3, in thousandths
BAND_WIDTH == 300

NUM_BANDS == 9

BACKGROUND_COLOR == "#ffffff"

EXTEND_MONTHS == 9

\* i_decrease = 1.5, in halves
i_decrease == 3

(***************************************************************************)
(* Calendar arithmetic behind pd.Timestamp, timedelta and pd.DateOffset.   *)
(***************************************************************************)
IsLeap(y) == (y % 4 = 0 /\ y % 100 # 0) \/ y % 400 = 0

DaysInMonth(y, m) ==
    IF m = 2 THEN (IF IsLeap(y) THEN 29 ELSE 28)
    ELSE IF m \in {4, 6, 9, 11} THEN 30 ELSE 31

DaysBeforeYear(y) ==
    (y - 1) * 365 + ((y - 1) \div 4) - ((y - 1) \div 100) + ((y - 1) \div 400)

RECURSIVE DaysBeforeMonth(_, _)
DaysBeforeMonth(y, m) ==
    IF m = 1 THEN 0 ELSE DaysBeforeMonth(y, m - 1) + DaysInMonth(y, m - 1)

ToOrdinal(y, m, d) == DaysBeforeYear(y) + DaysBeforeMonth(y, m) + d

FromOrdinal(n) ==
    LET y == CHOOSE yy \in (FirstYear - 1)..(LastYear + 2) :
                 DaysBeforeYear(yy) < n /\ n <= DaysBeforeYear(yy + 1)
        r == n - DaysBeforeYear(y)
        m == CHOOSE mm \in 1..12 :
                 DaysBeforeMonth(y, mm) < r
                 /\ r <= DaysBeforeMonth(y, mm) + DaysInMonth(y, mm)
    IN  [year |-> y, month |-> m, day |-> r - DaysBeforeMonth(y, m)]

\* date + timedelta(days=k)
timedelta(date, days) == date + days

\* date + pd.DateOffset(months=k): the month is advanced, the day of the
\* month is kept and clamped to the length of the target month
DateOffset(date, months) ==
    LET f  == FromOrdinal(date)
        mi == (f.month - 1) + months
        y  == f.year + (mi \div 12)
        m  == (mi % 12) + 1
        d  == IF f.day <= DaysInMonth(y, m) THEN f.day ELSE DaysInMonth(y, m)
    IN  ToOrdinal(y, m, d)

\* pd.date_range(start=s, periods=p), daily frequency
date_range(start, periods) == [k \in 1..periods |-> start + (k - 1)]

(***************************************************************************)
(* Column helpers of a DataFrame, a sequence of [Date, Value] rows.        *)
(***************************************************************************)
DateColumn(data) == [k \in 1..Len(data) |-> data[k].Date]

ValueColumn(data) == [k \in 1..Len(data) |-> data[k].Value]

SeqMax(s) == CHOOSE v \in {s[k] : k \in 1..Len(s)} :
                 \A k \in 1..Len(s) : s[k] <= v

SeqMin(s) == CHOOSE v \in {s[k] : k \in 1..Len(s)} :
                 \A k \in 1..Len(s) : v <= s[k]

(***************************************************************************)
(* extend_dates                                                            *)
(***************************************************************************)
\* variant: the range starts on the last date itself
ExtendStartSameDay(last_date) == timedelta(last_date, 0)

ExtendStart(last_date) == timedelta(last_date, 1)

\* variant: 31-day months
ExtendPeriodsLong(months) == months * 31

ExtendPeriods(months) == months * 30

extend_dates(data, months) ==
    LET last_date == SeqMax(DateColumn(data))
        extended_dates == date_range(ExtendStart(last_date), ExtendPeriods(months))
    IN  DateColumn(data) \o extended_dates

(***************************************************************************)
(* log_func of data.py: f(x) = a*ln(x + b) + c, in thousandths.  ln is the *)
(* piecewise-linear interpolation of ln between powers of two.             *)
(***************************************************************************)
RECURSIVE FloorLog2(_)
FloorLog2(n) == IF n < 2 THEN 0 ELSE 1 + FloorLog2(n \div 2)

LnMilli(n) ==
    LET k == FloorLog2(n)
        p == 2 ^ k
    IN  (693 * (k * p + (n - p))) \div p

log_func(x, params) == params.a * LnMilli(x + params.b) + params.c

\* np.exp(v): the real number e^(v/1000)
np_exp(v) == [exp |-> v]

\* np.arange(lo, hi) as a 1-based sequence lo, lo+1, ..., hi-1
arange(lo, hi) == [k \in 1..(hi - lo) |-> lo + (k - 1)]

(***************************************************************************)
(* plot_rainbow                                                            *)
(***************************************************************************)
Reversed(s) == [k \in 1..Len(s) |-> s[Len(s) + 1 - k]]

\* list(COLORS_LABELS.keys()) and list(COLORS_LABELS.values())
Keys(d) == [k \in 1..Len(d) |-> d[k][1]]

Values(d) == [k \in 1..Len(d) |-> d[k][2]]

\* variant: offsets decrease with the band index
UpperOffsetDescending(i, band_width) == ((i_decrease - 2 * i) * band_width) \div 2

\* variant: offsets centred on the fitted curve, (i - 3.5) * band_width
UpperOffsetCentred(i, band_width) == ((2 * i - 7) * band_width) \div 2

\* (i - i_decrease) * band_width
UpperOffset(i, band_width) == ((2 * i - i_decrease) * band_width) \div 2

\* variant: the band width is not subtracted
LowerOffsetNoShift(i, band_width) == ((2 * i - i_decrease) * band_width) \div 2

\* variant: the band width is subtracted twice
LowerOffsetDouble(i, band_width) ==
    ((2 * i - i_decrease) * band_width) \div 2 - 2 * band_width

\* (i - i_decrease) * band_width - band_width
LowerOffset(i, band_width) == ((2 * i - i_decrease) * band_width) \div 2 - band_width

\* variant: the colours are not reversed
BandColorForward(i) == Keys(COLORS_LABELS)[i + 1]

\* list(COLORS_LABELS.keys())[::-1][i], i 0-based
BandColor(i) == Reversed(Keys(COLORS_LABELS))[i + 1]

\* variant: the labels are not reversed
BandLabelForward(i) == Values(COLORS_LABELS)[i + 1]

\* list(COLORS_LABELS.values())[::-1][i], i 0-based
BandLabel(i) == Reversed(Values(COLORS_LABELS))[i + 1]

\* the two go.Scatter traces added for band i
BandTraces(i, extended_dates, extended_fitted_ydata, band_width) ==
    LET lower_bound == [j \in DOMAIN extended_fitted_ydata |->
                           np_exp(extended_fitted_ydata[j] + LowerOffset(i, band_width))]
        upper_bound == [j \in DOMAIN extended_fitted_ydata |->
                           np_exp(extended_fitted_ydata[j] + UpperOffset(i, band_width))]
    IN  << [x |-> extended_dates, y |-> upper_bound, fill |-> "None",
            fillcolor |-> "None", name |-> "None", showlegend |-> FALSE,
            line_width |-> 0],
           [x |-> extended_dates, y |-> lower_bound, fill |-> "tonexty",
            fillcolor |-> BandColor(i), name |-> BandLabel(i), showlegend |-> TRUE,
            line_width |-> 0] >>

\* for i in range(num_bands): ... continued from band i
RECURSIVE BandLoop(_, _, _, _, _, _)
BandLoop(traces, i, num_bands, extended_dates, extended_fitted_ydata, band_width) ==
    IF i >= num_bands THEN traces
    ELSE BandLoop(traces \o BandTraces(i, extended_dates, extended_fitted_ydata, band_width),
                  i + 1, num_bands, extended_dates, extended_fitted_ydata, band_width)

\* variant: 0-based indices, np.arange(len(extended_dates))
XDataZeroBased(extended_dates) == arange(0, Len(extended_dates))

XData(extended_dates) == arange(1, Len(extended_dates) + 1)

plot_rainbow(f, data, params, num_bands, band_width) ==
    LET extended_dates == extend_dates(data, EXTEND_MONTHS)
        extended_xdata == XData(extended_dates)
        extended_fitted_ydata == [j \in DOMAIN extended_xdata |->
                                     log_func(extended_xdata[j], params)]
    IN  [f EXCEPT !.traces = BandLoop(@, 0, num_bands, extended_dates,
                                      extended_fitted_ydata, band_width)]

(***************************************************************************)
(* plot_price, add_halving_lines, configure_plot, add_legend, create_plot  *)
(***************************************************************************)
plot_price(f, data) ==
    [f EXCEPT !.traces = Append(@,
        [x |-> DateColumn(data), y |-> ValueColumn(data), fill |-> "None",
         fillcolor |-> "None", name |-> "BTC Price", showlegend |-> TRUE,
         line_width |-> 2])]

halving_dates ==
    << ToOrdinal(2012, 11, 28), ToOrdinal(2016, 7, 9),
       ToOrdinal(2020, 5, 11), ToOrdinal(2024, 4, 20) >>

add_halving_lines(f) ==
    [f EXCEPT !.vlines = @ \o [k \in 1..Len(halving_dates) |->
        [x |-> halving_dates[k], line_width |-> 1, line_color |-> "gray"]]]

\* upper limit of the x axis
XAxisEnd(data) == DateOffset(SeqMax(DateColumn(data)), EXTEND_MONTHS)

configure_plot(f, data) ==
    [f EXCEPT !.yaxis_type = "log",
              !.yaxis_range = << [log10_of |-> <<1, 100>>],
                                 [log10_of |-> <<SeqMax(ValueColumn(data)) * 10, 1>>] >>,
              !.xaxis_range = << SeqMin(DateColumn(data)), XAxisEnd(data) >>,
              !.xaxis_tickformat = "%Y",
              !.yaxis_tickformat = "$,.0f",
              !.title = "Bitcoin Rainbow Chart"]

add_legend(f) == f

make_subplots ==
    [plot_bgcolor |-> "unset", paper_bgcolor |-> "unset", width |-> 0, height |-> 0,
     traces |-> <<>>, vlines |-> <<>>, xaxis_range |-> <<>>,
     xaxis_tickformat |-> "unset", yaxis_type |-> "unset", yaxis_range |-> <<>>,
     yaxis_tickformat |-> "unset", title |-> "unset"]

create_plot(data, params) ==
    LET f0 == [make_subplots EXCEPT !.plot_bgcolor = BACKGROUND_COLOR,
                                    !.paper_bgcolor = BACKGROUND_COLOR,
                                    !.width = 2400, !.height = 1200]
        f1 == plot_rainbow(f0, data, params, NUM_BANDS, BAND_WIDTH)
        f2 == plot_price(f1, data)
        f3 == add_halving_lines(f2)
        f4 == configure_plot(f3, data)
    IN  add_legend(f4)

(***************************************************************************)
(* Inputs: price series with strictly increasing dates, fit parameters.    *)
(***************************************************************************)
RECURSIVE SumFirst(_, _)
SumFirst(s, k) == IF k = 0 THEN 0 ELSE SumFirst(s, k - 1) + s[k]

Series(first, gaps, values) ==
    [k \in 1..(Len(gaps) + 1) |->
        [Date |-> first + SumFirst(gaps, k - 1), Value |-> values[k]]]

GapSeqs == UNION {[1..(n - 1) -> 1..MaxGap] : n \in 1..MaxLen}

RisingValues(n) == [k \in 1..n |-> 100 * k]

AllDays == ToOrdinal(FirstYear, 1, 1)..ToOrdinal(LastYear, 12, 31)

SomeDays == {ToOrdinal(FirstYear, 1, 1), ToOrdinal(LastYear, 2, 28)}

Prices == {0, 150}

PoptSet == [a : {1, 3}, b : {0, 7}, c : {-1500, 250}]

DateSeries == {Series(first, gaps, RisingValues(Len(gaps) + 1)) :
                  first \in AllDays, gaps \in GapSeqs}

BandSeries == {Series(first, gaps, RisingValues(Len(gaps) + 1)) :
                  first \in SomeDays, gaps \in GapSeqs}

CsvFiles == UNION {{Series(first, gaps, values) :
                       first \in SomeDays, values \in [1..(Len(gaps) + 1) -> Prices]} :
                   gaps \in GapSeqs}

NoPopt == [a |-> 0, b |-> 0, c |-> 0]

(***************************************************************************)
(* main: get_data, create_plot, then write_html or show.                   *)
(***************************************************************************)
\* get_data of data.py accepts a series of at least 3 points, all positive
ValidSeries(data) == Len(data) >= 3 /\ \A k \in 1..Len(data) : data[k].Value > 0

\* variant: the chart is written whatever the save flag
ExportCallAlwaysWrite(s) == "write_html"

\* the branch of main taken on the save flag
ExportCall(s) == IF s THEN "write_html" ELSE "show"

Init ==
    /\ csv \in CsvFiles
    /\ save \in BOOLEAN
    /\ file_path \in {"bitcoin_rainbow_chart.html", "out.html"}
    /\ pc = "get_data"
    /\ raw_data = <<>>
    /\ popt = NoPopt
    /\ fig = make_subplots
    /\ extended = <<>>
    /\ outputs = <<>>
    /\ stdout = <<>>
    /\ calls = <<>>

GetDataOk ==
    /\ pc = "get_data"
    /\ ValidSeries(csv)
    /\ raw_data' = csv
    /\ popt' \in PoptSet
    /\ calls' = Append(calls, "get_data")
    /\ pc' = "create_plot"
    /\ UNCHANGED <<csv, save, file_path, fig, extended, outputs, stdout>>

GetDataRaise ==
    /\ pc = "get_data"
    /\ calls' = Append(calls, "get_data")
    /\ pc' = "raised_get_data"
    /\ UNCHANGED <<csv, save, file_path, raw_data, popt, fig, extended, outputs, stdout>>

CreatePlotOk ==
    /\ pc = "create_plot"
    /\ fig' = create_plot(raw_data, popt)
    /\ calls' = Append(calls, "create_plot")
    /\ pc' = "export"
    /\ UNCHANGED <<csv, save, file_path, raw_data, popt, extended, outputs, stdout>>

CreatePlotRaise ==
    /\ pc = "create_plot"
    /\ calls' = Append(calls, "create_plot")
    /\ pc' = "raised_create_plot"
    /\ UNCHANGED <<csv, save, file_path, raw_data, popt, fig, extended, outputs, stdout>>

WriteHtml ==
    /\ pc = "export"
    /\ ExportCall(save) = "write_html"
    /\ outputs' = Append(outputs,
           [call |-> "write_html", path |-> file_path, full_html |-> TRUE,
            include_plotlyjs |-> "cdn", displayModeBar |-> FALSE,
            responsive |-> TRUE, figure |-> fig])
    /\ stdout' = Append(stdout, <<"Chart saved to", file_path>>)
    /\ calls' = Append(calls, "write_html")
    /\ pc' = "done"
    /\ UNCHANGED <<csv, save, file_path, raw_data, popt, fig, extended>>

WriteHtmlRaise ==
    /\ pc = "export"
    /\ ExportCall(save) = "write_html"
    /\ calls' = Append(calls, "write_html")
    /\ pc' = "raised_write_html"
    /\ UNCHANGED <<csv, save, file_path, raw_data, popt, fig, extended, outputs, stdout>>

Show ==
    /\ pc = "export"
    /\ ExportCall(save) = "show"
    /\ outputs' = Append(outputs,
           [call |-> "show", path |-> "None", full_html |-> FALSE,
            include_plotlyjs |-> "None", displayModeBar |-> TRUE,
            responsive |-> TRUE, figure |-> fig])
    /\ calls' = Append(calls, "show")
    /\ pc' = "done"
    /\ UNCHANGED <<csv, save, file_path, raw_data, popt, fig, extended, stdout>>

Next ==
    \/ GetDataOk
    \/ GetDataRaise
    \/ CreatePlotOk
    \/ CreatePlotRaise
    \/ WriteHtml
    \/ WriteHtmlRaise
    \/ Show

Spec == Init /\ [][Next]_vars

(***************************************************************************)
(* plot_rainbow applied to a series and fit parameters.                    *)
(***************************************************************************)
InitBands ==
    /\ csv = <<>>
    /\ save = TRUE
    /\ file_path = "bitcoin_rainbow_chart.html"
    /\ pc = "plot_rainbow"
    /\ raw_data \in BandSeries
    /\ popt \in PoptSet
    /\ fig = make_subplots
    /\ extended = <<>>
    /\ outputs = <<>>
    /\ stdout = <<>>
    /\ calls = <<>>

PlotRainbowStep ==
    /\ pc = "plot_rainbow"
    /\ fig' = plot_rainbow(fig, raw_data, popt, NUM_BANDS, BAND_WIDTH)
    /\ pc' = "returned"
    /\ UNCHANGED <<csv, save, file_path, raw_data, popt, extended, outputs, stdout, calls>>

NextBands == PlotRainbowStep

SpecBands == InitBands /\ [][NextBands]_vars

(***************************************************************************)
(* extend_dates and configure_plot applied to a series.                    *)
(***************************************************************************)
InitDates ==
    /\ csv = <<>>
    /\ save = TRUE
    /\ file_path = "bitcoin_rainbow_chart.html"
    /\ pc = "extend_dates"
    /\ raw_data \in DateSeries
    /\ popt = NoPopt
    /\ fig = make_subplots
    /\ extended = <<>>
    /\ outputs = <<>>
    /\ stdout = <<>>
    /\ calls = <<>>

ExtendDatesStep ==
    /\ pc = "extend_dates"
    /\ extended' = extend_dates(raw_data, EXTEND_MONTHS)
    /\ pc' = "configure_plot"
    /\ UNCHANGED <<csv, save, file_path, raw_data, popt, fig, outputs, stdout, calls>>

ConfigurePlotStep ==
    /\ pc = "configure_plot"
    /\ fig' = configure_plot(fig, raw_data)
    /\ pc' = "returned"
    /\ UNCHANGED <<csv, save, file_path, raw_data, popt, extended, outputs, stdout, calls>>

NextDates == ExtendDatesStep \/ ConfigurePlotStep

SpecDates == InitDates /\ [][NextDates]_vars

(***************************************************************************)
(* Reading the rendered figure.                                            *)
(***************************************************************************)
\* y of the upper-bound trace of band i (0-based), the (2i+1)-th trace
UpperBound(i) == fig.traces[2 * i + 1].y

\* y of the lower-bound trace of band i (0-based), the (2i+2)-th trace
LowerBound(i) == fig.traces[2 * i + 2].y

\* the filled trace of band i, carrying its colour and label
BandFill(i) == fig.traces[2 * i + 2]

\* natural logarithm of a value produced by np_exp
Ln(v) == v.exp

\* fitted(x) = log_func(x, *popt)
Fitted(x) == log_func(x, popt)

\* position of a label in COLORS_LABELS as written (1 = most red)
PaletteIndex(label) == CHOOSE k \in 1..Len(COLORS_LABELS) : COLORS_LABELS[k][2] = label

BandIds == 0..(NUM_BANDS - 1)

RainbowDrawn == pc = "returned" /\ Len(fig.traces) = 2 * NUM_BANDS

XIndices == 1..Len(UpperBound(0))

\* band p lies above band q at every x
Above(p, q) ==
    \A j \in XIndices : /\ Ln(LowerBound(p)[j]) >= Ln(UpperBound(q)[j])
                        /\ Ln(UpperBound(p)[j]) > Ln(UpperBound(q)[j])

(***************************************************************************)
(* Properties of the bands (SpecBands).                                    *)
(***************************************************************************)
\* C1: band contiguity: at every date index x and for every band i with
\* 0 < i < num_bands, the lower bound of band i equals the upper bound of
\* band i-1, so the bands leave no gap and no overlap.
C1_BandContiguity ==
    pc = "returned" =>
        \A i \in 1..(NUM_BANDS - 1) : \A j \in XIndices :
            LowerBound(i)[j] = UpperBound(i - 1)[j]

C1_Witness ==
    /\ RainbowDrawn
    /\ Len(raw_data) = 2
    /\ LowerBound(1)[1] = UpperBound(0)[1]

\* C2 as stated: at every date index band 0 has bounds equal to or greater
\* than band 8, the bands being ordered from highest (index 0) to lowest.
C2_Original ==
    pc = "returned" =>
        \A j \in XIndices : /\ Ln(UpperBound(0)[j]) >= Ln(UpperBound(NUM_BANDS - 1)[j])
                            /\ Ln(LowerBound(0)[j]) >= Ln(LowerBound(NUM_BANDS - 1)[j])

\* C2 amended: the bands are ordered by index from the lowest valuation
\* (index 0) to the highest (index 8): for i < k the bounds of band k are
\* strictly greater than those of band i at every date index.
C2_AscendingOrder ==
    pc = "returned" =>
        \A i \in BandIds : \A k \in BandIds : i < k =>
            \A j \in XIndices : /\ Ln(UpperBound(k)[j]) > Ln(UpperBound(i)[j])
                                /\ Ln(LowerBound(k)[j]) > Ln(LowerBound(i)[j])

C2_Witness ==
    /\ RainbowDrawn
    /\ Ln(UpperBound(NUM_BANDS - 1)[1]) > Ln(UpperBound(0)[1])
    /\ popt.a = 3

\* C3 as stated: band 0 is "#c00200" / "Maximum bubble territory", band 8
\* is "#4472c4" / "Fire sale!", band i gets the i-th palette entry as
\* written, colour and label from the same entry.
C3_Original ==
    pc = "returned" =>
        \A i \in BandIds : /\ BandFill(i).fillcolor = COLORS_LABELS[i + 1][1]
                           /\ BandFill(i).name = COLORS_LABELS[i + 1][2]

\* C3 amended: band i gets the (num_bands - 1 - i)-th palette entry as
\* written (0-based): band 0 is "#4472c4" / "Fire sale!", band 8 is
\* "#c00200" / "Maximum bubble territory"; colour and label of a band come
\* from the same entry.
C3_ReversedPalette ==
    pc = "returned" =>
        /\ \A i \in BandIds : /\ BandFill(i).fillcolor = COLORS_LABELS[NUM_BANDS - i][1]
                              /\ BandFill(i).name = COLORS_LABELS[NUM_BANDS - i][2]
        /\ BandFill(0).fillcolor = "#4472c4" /\ BandFill(0).name = "Fire sale!"
        /\ BandFill(NUM_BANDS - 1).fillcolor = "#c00200"
        /\ BandFill(NUM_BANDS - 1).name = "Maximum bubble territory"

C3_Witness ==
    /\ RainbowDrawn
    /\ BandFill(0).fill = "tonexty"
    /\ BandFill(0).name = "Fire sale!"

\* C4 as stated: the distance in log space from fitted(x) up to the upper
\* bound of the topmost band equals the distance from fitted(x) down to the
\* lower bound of the bottommost band.
C4_Original ==
    pc = "returned" =>
        \A j \in XIndices :
            Ln(UpperBound(NUM_BANDS - 1)[j]) - Fitted(j)
                = Fitted(j) - Ln(LowerBound(0)[j])

\* C4 amended: the stack spans num_bands * band_width = 2.7 in log space,
\* from 2.5 * band_width = 0.75 below fitted(x) to 6.5 * band_width = 1.95
\* above it, at every date index.
C4_StackSpan ==
    pc = "returned" =>
        \A j \in XIndices :
            /\ Ln(UpperBound(NUM_BANDS - 1)[j]) - Fitted(j) = (13 * BAND_WIDTH) \div 2
            /\ Fitted(j) - Ln(LowerBound(0)[j]) = (5 * BAND_WIDTH) \div 2
            /\ Ln(UpperBound(NUM_BANDS - 1)[j]) - Ln(LowerBound(0)[j])
                   = NUM_BANDS * BAND_WIDTH

C4_Witness ==
    /\ RainbowDrawn
    /\ Ln(UpperBound(NUM_BANDS - 1)[1]) - Fitted(1) = 1950
    /\ Fitted(1) - Ln(LowerBound(0)[1]) = 750

\* C6: for a series of N points there are exactly 9 bands, each bound has
\* N + 270 values, one per extended date, the value at position j being
\* computed from x = j, so the future dates continue N+1, ..., N+270.
C6_Coverage ==
    pc = "returned" =>
        LET n == Len(raw_data) IN
        /\ Len(fig.traces) = 18
        /\ Cardinality({t \in 1..Len(fig.traces) : fig.traces[t].fill = "tonexty"}) = 9
        /\ \A i \in BandIds :
            /\ Len(UpperBound(i)) = n + 270
            /\ Len(LowerBound(i)) = n + 270
            /\ Len(fig.traces[2 * i + 1].x) = n + 270
            /\ Len(BandFill(i).x) = n + 270
            /\ \A j \in 1..(n + 270) :
                /\ Ln(UpperBound(i)[j]) = Fitted(j) + UpperOffset(i, BAND_WIDTH)
                /\ Ln(LowerBound(i)[j]) = Fitted(j) + LowerOffset(i, BAND_WIDTH)

C6_Witness ==
    /\ RainbowDrawn
    /\ Len(raw_data) = 3
    /\ Len(UpperBound(4)) = 273
    /\ Ln(UpperBound(4)[273]) = Fitted(273) + UpperOffset(4, BAND_WIDTH)

\* C7: every band has the same width in log space: ln(upper) - ln(lower)
\* is band_width for every date index and band, whatever the fit
\* parameters, and the upper bound is above the lower bound.
C7_ConstantWidth ==
    pc = "returned" =>
        \A i \in BandIds : \A j \in XIndices :
            /\ Ln(UpperBound(i)[j]) - Ln(LowerBound(i)[j]) = BAND_WIDTH
            /\ Ln(UpperBound(i)[j]) > Ln(LowerBound(i)[j])

C7_Witness ==
    /\ RainbowDrawn
    /\ popt.b = 7
    /\ Ln(UpperBound(8)[2]) - Ln(LowerBound(8)[2]) = 300

\* C9: label order agrees with valuation order: of two bands the one lying
\* above carries the label written earlier in COLORS_LABELS; the lowest
\* band is "Fire sale!" (#4472c4), the highest "Maximum bubble territory"
\* (#c00200), and each of the 9 labels is used by exactly one band.
C9_LabelOrder ==
    pc = "returned" =>
        /\ \A p \in BandIds : \A q \in BandIds :
              Above(p, q) => PaletteIndex(BandFill(p).name) < PaletteIndex(BandFill(q).name)
        /\ \A p \in BandIds :
              /\ (\A q \in BandIds \ {p} : Above(q, p)) =>
                    (BandFill(p).name = "Fire sale!" /\ BandFill(p).fillcolor = "#4472c4")
              /\ (\A q \in BandIds \ {p} : Above(p, q)) =>
                    (BandFill(p).name = "Maximum bubble territory"
                     /\ BandFill(p).fillcolor = "#c00200")
        /\ \E p \in BandIds : \A q \in BandIds \ {p} : Above(q, p)
        /\ \E p \in BandIds : \A q \in BandIds \ {p} : Above(p, q)
        /\ \A k \in 1..Len(COLORS_LABELS) :
              Cardinality({p \in BandIds : BandFill(p).name = COLORS_LABELS[k][2]}) = 1

C9_Witness ==
    /\ RainbowDrawn
    /\ Above(5, 4)
    /\ PaletteIndex(BandFill(5).name) < PaletteIndex(BandFill(4).name)

(***************************************************************************)
(* Properties of the date extension (SpecDates).                           *)
(***************************************************************************)
\* C5: extend_dates yields the original dates unchanged and in order,
\* followed by exactly months*30 = 270 further dates, the first being the
\* day after the last date and each one day after its predecessor.
C5_DateExtension ==
    pc \in {"configure_plot", "returned"} =>
        LET n == Len(raw_data) IN
        /\ Len(extended) = n + EXTEND_MONTHS * 30
        /\ Len(extended) = n + 270
        /\ \A k \in 1..n : extended[k] = raw_data[k].Date
        /\ extended[n + 1] = raw_data[n].Date + 1
        /\ \A k \in (n + 1)..(Len(extended) - 1) : extended[k + 1] = extended[k] + 1

C5_Witness ==
    /\ pc = "configure_plot"
    /\ Len(raw_data) = 2
    /\ FromOrdinal(raw_data[2].Date) = [year |-> LastYear, month |-> 2, day |-> 28]
    /\ Len(extended) = 272
    /\ FromOrdinal(extended[3]) = [year |-> LastYear, month |-> 2 + (IF IsLeap(LastYear) THEN 0 ELSE 1),
                                   day |-> IF IsLeap(LastYear) THEN 29 ELSE 1]

\* C10: the last date for which bands are drawn, last date + 270 days, is
\* strictly earlier than the upper limit of the x axis, last date + 9
\* calendar months, for every last date.
C10_BandsEndBeforeAxis ==
    pc = "returned" =>
        LET last == raw_data[Len(raw_data)].Date IN
        /\ extended[Len(extended)] = last + 270
        /\ extended[Len(extended)] < fig.xaxis_range[2]
        /\ fig.xaxis_range[2] = DateOffset(last, 9)

C10_Witness ==
    /\ pc = "returned"
    /\ FromOrdinal(raw_data[Len(raw_data)].Date).month = 5
    /\ FromOrdinal(raw_data[Len(raw_data)].Date).day = 31
    /\ fig.xaxis_range[2] - extended[Len(extended)] = 3

(***************************************************************************)
(* Properties of main (Spec).                                              *)
(***************************************************************************)
ExportCalls == {"write_html", "show"}

Exported == \E k \in 1..Len(calls) : calls[k] \in ExportCalls

\* C8: export happens only after get_data and create_plot have completed,
\* in that order; if either raises nothing is written or shown; a run that
\* completes has exactly one export: write_html to file_path (mode bar
\* disabled, responsive) when save, show and no file write otherwise.
C8_AllOrNothing ==
    /\ Exported =>
          /\ Len(calls) = 3
          /\ calls[1] = "get_data" /\ calls[2] = "create_plot"
          /\ pc \in {"done", "raised_write_html"}
          /\ raw_data = csv /\ Len(raw_data) > 0
          /\ Len(fig.traces) = 2 * NUM_BANDS + 1
    /\ Len(outputs) > 0 => Exported
    /\ pc \in {"raised_get_data", "raised_create_plot"} =>
          /\ Len(outputs) = 0
          /\ Len(stdout) = 0
          /\ ~Exported
    /\ pc = "done" =>
          /\ Len(outputs) = 1
          /\ outputs[1].figure = fig
          /\ save => /\ outputs[1].call = "write_html"
                     /\ outputs[1].path = file_path
                     /\ outputs[1].displayModeBar = FALSE
                     /\ outputs[1].responsive = TRUE
          /\ ~save => /\ outputs[1].call = "show"
                      /\ \A k \in 1..Len(calls) : calls[k] # "write_html"
                      /\ Len(stdout) = 0

C8_Witness ==
    /\ pc = "done"
    /\ ~save
    /\ Len(outputs) = 1
    /\ outputs[1].call = "show"

====
